---- MODULE Spec2Model ----
(***************************************************************************)
(* A model of cheryl.py: Player, Statement and Game, the filtering of a    *)
(* candidate set by statements about who knows what.                       *)
(*                                                                         *)
(* Python objects live on a heap: `games` holds the Game objects and       *)
(* `sets` the set objects their `candidates` attribute refers to.  The     *)
(* caller holds the Game at address 1; what a call creates is appended.    *)
(* Python lists are sequences; a tuple (7, 16) is the sequence <<7, 16>>,  *)
(* so the 0-based index i of the code is position i + 1 here.              *)
(***************************************************************************)
EXTENDS Integers, Sequences, FiniteSets, TLC

VARIABLES games, sets, last

vars == <<games, sets, last>>

-----------------------------------------------------------------------------
(* Bounds of the model *)

\* the largest number of candidates of an initial game
MaxCands == 3

\* the largest number of entries of the facts of a generated statement
MaxFacts == 1

\* the longest list of statements passed to filter_chain and its callers
MaxChain == 2

\* the longest list of cases passed to knows_cases
MaxCases == 4

\* the largest n_candidates passed to sample_candidates
MaxSample == 2

\* the largest max_tries passed to sample_candidates
MaxTries == 2

-----------------------------------------------------------------------------
(* Sequences and sets *)

Range(seq) == {seq[i] : i \in 1..Len(seq)}

Reverse(seq) == [i \in 1..Len(seq) |-> seq[Len(seq) + 1 - i]]

\* the candidates of the original game of the tests
CherylElems ==
  << <<5, 15>>, <<5, 16>>, <<5, 19>>, <<6, 17>>, <<6, 18>>,
     <<7, 14>>, <<7, 16>>, <<8, 14>>, <<8, 15>>, <<8, 17>> >>

\* the tuples the small three-player games are made of
GridElems ==
  << <<1, 1, 1>>, <<1, 1, 2>>, <<1, 2, 1>>, <<1, 2, 2>>,
     <<2, 1, 1>>, <<2, 1, 2>>, <<2, 2, 1>>, <<2, 2, 2>> >>

Universe == CherylElems \o GridElems

\* The order in which Python iterates over a set is unspecified but the same
\* for every pass over an unmodified set: a call picks one of these orders.
IterOrders == {"forward", "backward"}

\* `for e in S` / list(S): the elements of the set S as a list
Iter(S, ord) ==
  IF ord = "backward"
  THEN Reverse(SelectSeq(Universe, LAMBDA e : e \in S))
  ELSE SelectSeq(Universe, LAMBDA e : e \in S)

-----------------------------------------------------------------------------
(* class Knows, knows, knows_cases *)

Knows_no == -1

Knows_maybe == 0

Knows_yes == 1

Knows == {Knows_no, Knows_maybe, Knows_yes}

\* knows answering yes for any candidate left at all
knows_some(compatible) == IF Len(compatible) >= 1 THEN Knows_yes ELSE Knows_no

knows(compatible) == IF Len(compatible) = 1 THEN Knows_yes ELSE Knows_no

\* knows_cases deciding between no and maybe by the first case alone
knows_cases_head(cases) ==
  IF \A i \in 1..Len(cases) : cases[i] = Knows_yes THEN Knows_yes
  ELSE IF cases[1] = Knows_no THEN Knows_no
  ELSE Knows_maybe

\* knows_cases with `any` for the second `all`
knows_cases_any(cases) ==
  IF \A i \in 1..Len(cases) : cases[i] = Knows_yes THEN Knows_yes
  ELSE IF \E i \in 1..Len(cases) : cases[i] = Knows_no THEN Knows_no
  ELSE Knows_maybe

knows_cases(cases) ==
  IF \A i \in 1..Len(cases) : cases[i] = Knows_yes THEN Knows_yes
  ELSE IF \A i \in 1..Len(cases) : cases[i] = Knows_no THEN Knows_no
  ELSE Knows_maybe

-----------------------------------------------------------------------------
(* class Player *)

Player(name, index) == [name |-> name, index |-> index]

\* get_compatible leaving the truth itself out
get_compatible_others(self, truth, candidates) ==
  SelectSeq(candidates,
            LAMBDA e : e[self.index + 1] = truth[self.index + 1] /\ e # truth)

\* get_compatible reading the truth at index 0 whoever the player is
get_compatible_first(self, truth, candidates) ==
  SelectSeq(candidates, LAMBDA e : e[self.index + 1] = truth[1])

\* candidates is a list, or a set in its iteration order
get_compatible(self, truth, candidates) ==
  SelectSeq(candidates, LAMBDA e : e[self.index + 1] = truth[self.index + 1])

would_know(self, truths, candidates) ==
  knows_cases([i \in 1..Len(truths) |->
                 knows(get_compatible(self, truths[i], candidates))])

-----------------------------------------------------------------------------
(* class Game *)

\* str(i) of a dimension index
str(i) ==
  CASE i = 0 -> "0" [] i = 1 -> "1" [] i = 2 -> "2" [] i = 3 -> "3"
    [] OTHER -> "n"

\* the argument player_names: None, or a list of names
None == [none |-> TRUE, names |-> <<>>]

Names(list) == [none |-> FALSE, names |-> list]

\* the outcome of a call: the heap after it, "ok" or the exception raised,
\* the value returned and the Games filter was called on during the call
Result(w, outcome, value, calls) ==
  [w |-> w, outcome |-> outcome, value |-> value, calls |-> calls]

\* the end of Game.__init__: the new Game object, with a set object of its
\* own and a Player for each name, is put on the heap; value is its address
GameObject(w, candidates, player_names) ==
  Result([games |-> Append(w.games,
                      [candidates |-> Len(w.sets) + 1,
                       players |-> [i \in 1..Len(player_names) |->
                                      Player(player_names[i], i - 1)]]),
          sets |-> Append(w.sets, Range(candidates))],
         "ok", Len(w.games) + 1, <<>>)

\* Game.__init__ testing only how many names there are
GameInit_counted(w, candidates, player_names) ==
  IF player_names.none THEN
    GameObject(w, candidates, [i \in 1..Len(candidates[1]) |-> str(i - 1)])
  ELSE IF Len(player_names.names) # Len(candidates[1]) THEN
    Result(w, "BadPlayerNamesError", 0, <<>>)
  ELSE
    GameObject(w, candidates, player_names.names)

\* Game.__init__
GameInit(w, candidates, player_names) ==
  IF player_names.none THEN
    GameObject(w, candidates, [i \in 1..Len(candidates[1]) |-> str(i - 1)])
  ELSE IF Len(player_names.names) # Cardinality(Range(player_names.names)) THEN
    Result(w, "BadPlayerNamesError", 0, <<>>)
  ELSE IF Len(player_names.names) # Len(candidates[1]) THEN
    Result(w, "BadPlayerNamesError", 0, <<>>)
  ELSE
    GameObject(w, candidates, player_names.names)

\* the first player of that name (the statements of the model name players
\* of the roster only)
get_player(self, name) ==
  self.players[CHOOSE i \in 1..Len(self.players) :
                 /\ self.players[i].name = name
                 /\ \A j \in 1..(i - 1) : self.players[j].name # name]

get_player_names(self) == [i \in 1..Len(self.players) |-> self.players[i].name]

-----------------------------------------------------------------------------
(* class Statement *)

\* A key of the facts dict: a player's name, or a tuple of names.  A str
\* never equals a tuple, so the two kinds of key are kept apart.
Single(name) == [tuple |-> FALSE, names |-> <<name>>]

Group(names) == [tuple |-> TRUE, names |-> names]

\* Statement.__init__ looking at the first name of a tuple only
StatementInit_first(author, facts) ==
  IF \E who \in DOMAIN facts : who.tuple /\ who.names[1] = author
  THEN [outcome |-> "InvalidStatementError",
        value |-> [author |-> author, facts |-> facts]]
  ELSE [outcome |-> "ok", value |-> [author |-> author, facts |-> facts]]

\* Statement.__init__
StatementInit(author, facts) ==
  IF \E who \in DOMAIN facts :
       who.tuple /\ \E i \in 1..Len(who.names) : who.names[i] = author
  THEN [outcome |-> "InvalidStatementError",
        value |-> [author |-> author, facts |-> facts]]
  ELSE [outcome |-> "ok", value |-> [author |-> author, facts |-> facts]]

\* `who == author` of true_for compares a key of facts (a str or a tuple)
\* with the Player object: Player defines no __eq__, so Python falls back on
\* identity and the comparison is False for every key
WhoIsAuthor(who, author) == FALSE

\* true_for asking every player of a tuple key to match
true_for_body_all(self, game, candidates, author, author_compatible) ==
  IF /\ Single(author.name) \in DOMAIN self.facts
     /\ knows(author_compatible) # self.facts[Single(author.name)]
  THEN FALSE
  ELSE \A who \in DOMAIN self.facts :
         \A i \in 1..Len(who.names) :
            would_know(get_player(game, who.names[i]),
                       author_compatible, candidates) = self.facts[who]

\* the body of true_for once its locals are set: candidates is
\* game.candidates in its iteration order
true_for_body(self, game, candidates, author, author_compatible) ==
  IF /\ Single(author.name) \in DOMAIN self.facts
     /\ knows(author_compatible) # self.facts[Single(author.name)]
  THEN FALSE
  ELSE \A who \in DOMAIN self.facts :
         IF WhoIsAuthor(who, author) THEN TRUE
         ELSE IF who.tuple THEN
           \E i \in 1..Len(who.names) :
              would_know(get_player(game, who.names[i]),
                         author_compatible, candidates) = self.facts[who]
         ELSE
           would_know(get_player(game, who.names[1]),
                      author_compatible, candidates) = self.facts[who]

\* true_for taking the candidate alone for what the author cannot tell it
\* from
true_for_alone(self, cand, game, w, ord) ==
  true_for_body(self, game, Iter(w.sets[game.candidates], ord),
                get_player(game, self.author), <<cand>>)

\* Statement.true_for, with game.candidates iterated in the order ord
true_for(self, cand, game, w, ord) ==
  true_for_body(self, game, Iter(w.sets[game.candidates], ord),
                get_player(game, self.author),
                get_compatible(get_player(game, self.author), cand,
                               Iter(w.sets[game.candidates], ord)))

-----------------------------------------------------------------------------
(* Game.filter, filter_chain, n_solutions, get_solution *)

\* a Result with the calls of filter it took
Logged(r, calls) == Result(r.w, r.outcome, r.value, calls)

\* filter without the test for an empty result
filter_end_unchecked(w, self, filtered) ==
  Result([games |-> Append(w.games,
                           [w.games[self] EXCEPT !.candidates = Len(w.sets) + 1]),
          sets |-> Append(w.sets, Range(filtered))],
         "ok", Len(w.games) + 1, <<self>>)

\* filter narrowing the candidate set of the Game it is called on and
\* returning that Game
filter_end_inplace(w, self, filtered) ==
  IF filtered = <<>>
  THEN Result(w, "NoSolutionError", 0, <<self>>)
  ELSE Result([w EXCEPT !.sets[w.games[self].candidates] = Range(filtered)],
              "ok", self, <<self>>)

\* filter making the new Game without the names of the players
filter_end_unnamed(w, self, filtered) ==
  IF filtered = <<>>
  THEN Result(w, "NoSolutionError", 0, <<self>>)
  ELSE Logged(GameInit(w, filtered, None), <<self>>)

\* the end of Game.filter, filtered being the list of the candidates kept
filter_end(w, self, filtered) ==
  IF filtered = <<>>
  THEN Result(w, "NoSolutionError", 0, <<self>>)
  ELSE Logged(GameInit(w, filtered, Names(get_player_names(w.games[self]))),
              <<self>>)

\* filter removing the candidates from a working copy as it goes, and
\* evaluating the statement with the copy as the candidates of the game
RECURSIVE narrow_loop(_, _, _, _, _, _)
narrow_loop(w, self, statement, ord, todo, remaining) ==
  IF todo = <<>> THEN remaining
  ELSE LET wn == [w EXCEPT !.sets[w.games[self].candidates] = remaining]
           keep == true_for(statement, Head(todo), wn.games[self], wn, ord)
       IN  narrow_loop(w, self, statement, ord, Tail(todo),
                       IF keep THEN remaining ELSE remaining \ {Head(todo)})

filter_narrowing(w, self, statement, ord) ==
  filter_end(w, self,
             Iter(narrow_loop(w, self, statement, ord,
                              Iter(w.sets[w.games[self].candidates], ord),
                              w.sets[w.games[self].candidates]), ord))

\* Game.filter of the Game at address self
filter(w, self, statement, ord) ==
  filter_end(w, self,
             SelectSeq(Iter(w.sets[w.games[self].candidates], ord),
                       LAMBDA cand :
                         true_for(statement, cand, w.games[self], w, ord)))

RECURSIVE chain_loop(_, _, _, _, _, _)
RECURSIVE chain_step(_, _, _, _, _, _)

\* filter_chain going on with the Game it has when a step raises
chain_step_on(step, game, statements, i, ord, calls) ==
  chain_loop(step.w, IF step.outcome = "ok" THEN step.value ELSE game,
             statements, i + 1, ord, calls \o step.calls)

\* game = game.filter(statement): step is what the filter gave; an exception
\* ends the loop
chain_step(step, game, statements, i, ord, calls) ==
  IF step.outcome # "ok"
  THEN Result(step.w, step.outcome, 0, calls \o step.calls)
  ELSE chain_loop(step.w, step.value, statements, i + 1, ord,
                  calls \o step.calls)

\* the loop of filter_chain from statement i on, game being the current Game
chain_loop(w, game, statements, i, ord, calls) ==
  IF i > Len(statements) THEN Result(w, "ok", game, calls)
  ELSE chain_step(filter(w, game, statements[i], ord), game, statements, i,
                  ord, calls)

\* filter_chain filtering self at every step: game = self.filter(statement)
RECURSIVE chain_loop_self(_, _, _, _, _, _, _)
chain_loop_self(w, self, game, statements, i, ord, calls) ==
  IF i > Len(statements) THEN Result(w, "ok", game, calls)
  ELSE LET step == filter(w, self, statements[i], ord)
       IN  IF step.outcome # "ok"
           THEN Result(step.w, step.outcome, 0, calls \o step.calls)
           ELSE chain_loop_self(step.w, self, step.value, statements, i + 1, ord,
                                calls \o step.calls)

filter_chain_self(w, self, statements, ord) ==
  chain_loop_self(w, self, self, statements, 1, ord, <<>>)

\* filter_chain testing every statement against the Game it is called on and
\* keeping the candidates all of them are true for
filter_chain_meet(w, self, statements, ord) ==
  IF statements = <<>> THEN Result(w, "ok", self, <<>>)
  ELSE filter_end(w, self,
                  SelectSeq(Iter(w.sets[w.games[self].candidates], ord),
                            LAMBDA cand :
                              \A i \in 1..Len(statements) :
                                 true_for(statements[i], cand, w.games[self],
                                          w, ord)))

\* Game.filter_chain (trace=False: nothing is printed)
filter_chain(w, self, statements, ord) ==
  chain_loop(w, self, statements, 1, ord, <<>>)

\* n_solutions without the except clause
n_solutions_uncaught(r) ==
  IF r.outcome = "ok"
  THEN Result(r.w, "ok", Cardinality(r.w.sets[r.w.games[r.value].candidates]),
              r.calls)
  ELSE r

\* the try statement of n_solutions, r being what filter_chain gave
n_solutions_try(r) ==
  IF r.outcome = "ok"
  THEN Result(r.w, "ok", Cardinality(r.w.sets[r.w.games[r.value].candidates]),
              r.calls)
  ELSE IF r.outcome = "NoSolutionError"
  THEN Result(r.w, "ok", 0, r.calls)
  ELSE r

\* Game.n_solutions
n_solutions(w, self, statements, ord) ==
  n_solutions_try(filter_chain(w, self, statements, ord))

\* get_solution without the test for several candidates
get_solution_first(r, ord) ==
  IF r.outcome # "ok" THEN r
  ELSE Result(r.w, "ok",
              Iter(r.w.sets[r.w.games[r.value].candidates], ord)[1], r.calls)

\* the end of get_solution, r being what filter_chain gave
get_solution_end(r, ord) ==
  IF r.outcome # "ok" THEN r
  ELSE IF Cardinality(r.w.sets[r.w.games[r.value].candidates]) > 1
  THEN Result(r.w, "MultipleSolutionsError", 0, r.calls)
  ELSE Result(r.w, "ok",
              Iter(r.w.sets[r.w.games[r.value].candidates], ord)[1], r.calls)

\* Game.get_solution
get_solution(w, self, statements, ord) ==
  get_solution_end(filter_chain(w, self, statements, ord), ord)

-----------------------------------------------------------------------------
(* The inputs of the calls *)

\* the keys a generated statement may use: every name of the roster, and
\* every pair of names in roster order as a tuple key
Keys(names) ==
  {Single(names[i]) : i \in 1..Len(names)}
    \cup {Group(<<names[p[1]], names[p[2]]>>) :
            p \in {p \in (1..Len(names)) \X (1..Len(names)) : p[1] < p[2]}}

Facts(names) ==
  UNION {[K -> Knows] :
           K \in {K \in SUBSET Keys(names) : Cardinality(K) <= MaxFacts}}

\* the Statement objects among the outcomes of Statement.__init__
Made(outcomes) == {st.value : st \in {st \in outcomes : st.outcome = "ok"}}

\* the statements that can be constructed for the Game
Statements(game) ==
  Made({StatementInit(author, facts) :
          author \in Range(get_player_names(game)),
          facts \in Facts(get_player_names(game))})

\* "I know" and "I do not know", said by each player
SelfStatements(game) ==
  Made({StatementInit(author, [who \in {Single(author)} |-> k]) :
          author \in Range(get_player_names(game)), k \in {Knows_yes, Knows_no}})

Lists(S, n) == UNION {[1..k -> S] : k \in 0..n}

\* the three statements of test_original_game
CherylStatements ==
  << StatementInit("0", [who \in {Single("0"), Single("1")} |-> Knows_no]).value,
     StatementInit("1", [who \in {Single("1")} |-> Knows_yes]).value,
     StatementInit("0", [who \in {Single("0")} |-> Knows_yes]).value >>

\* the statements of the original game, each at most once, in any order
CherylLists ==
  {ss \in Lists(Range(CherylStatements), Len(CherylStatements)) :
     \A i, j \in 1..Len(ss) : ss[i] = ss[j] => i = j}

\* the tuples of the Game's arity
Tuples(game) == {e \in Range(Universe) : Len(e) = Len(game.players)}

-----------------------------------------------------------------------------
(* The state machine: a caller holding one Game and calling its methods *)

EmptyHeap == [games |-> <<>>, sets |-> <<>>]

\* what the caller holds when it makes a call: its Game, at address 1
Held == [games |-> <<games[1]>>, sets |-> <<sets[games[1].candidates]>>]

Called(op, stmts, cand, r) ==
  [op |-> op, stmts |-> stmts, cand |-> cand, outcome |-> r.outcome,
   value |-> r.value, calls |-> r.calls]

\* no call is pending: the caller has its Game and the result of no call
Idle == [op |-> "idle", stmts |-> <<>>, cand |-> <<>>, outcome |-> "ok",
         value |-> 1, calls |-> <<>>]

\* the caller has made its Game
Constructed(r) ==
  /\ r.outcome = "ok"
  /\ games = r.w.games
  /\ sets = r.w.sets
  /\ last = Idle

NewGame(elems, player_names) == Constructed(GameInit(EmptyHeap, elems, player_names))

Init ==
  \E S \in SUBSET Range(GridElems), ord \in IterOrders :
     /\ Cardinality(S) \in 1..MaxCands
     /\ NewGame(Iter(S, ord), None)

InitCheryl == NewGame(CherylElems, Names(<<"0", "1">>))

\* a call is made when the result of the one before has been dealt with
Return(op, stmts, cand, r) ==
  /\ last.op = "idle"
  /\ games' = r.w.games
  /\ sets' = r.w.sets
  /\ last' = Called(op, stmts, cand, r)

DoTrueFor(s, cand) ==
  \E ord \in IterOrders :
     Return("true_for", <<s>>, cand,
            Result(Held, "ok", true_for(s, cand, Held.games[1], Held, ord), <<>>))

DoFilter(s) ==
  \E ord \in IterOrders : Return("filter", <<s>>, <<>>, filter(Held, 1, s, ord))

DoFilterChain(ss) ==
  \E ord \in IterOrders :
     Return("filter_chain", ss, <<>>, filter_chain(Held, 1, ss, ord))

DoNSolutions(ss) ==
  \E ord \in IterOrders :
     Return("n_solutions", ss, <<>>, n_solutions(Held, 1, ss, ord))

DoGetSolution(ss) ==
  \E ord \in IterOrders :
     Return("get_solution", ss, <<>>, get_solution(Held, 1, ss, ord))

\* game = game.filter(statement), game = game.filter_chain(statements): the
\* caller keeps the Game returned and drops the one it held
Adopt ==
  /\ last.op \in {"filter", "filter_chain"}
  /\ last.outcome = "ok"
  /\ games' = <<[games[last.value] EXCEPT !.candidates = 1]>>
  /\ sets' = <<sets[games[last.value].candidates]>>
  /\ last' = Idle

\* the caller drops the result of the call and what the call created
Drop ==
  /\ last.op # "idle"
  /\ games' = Held.games
  /\ sets' = Held.sets
  /\ last' = Idle

TrueFor ==
  /\ last.op = "idle"
  /\ \E s \in Statements(games[1]), cand \in Tuples(games[1]) : DoTrueFor(s, cand)

Filter ==
  /\ last.op = "idle"
  /\ \E s \in Statements(games[1]) : DoFilter(s)

FilterChain ==
  /\ last.op = "idle"
  /\ \E ss \in Lists(SelfStatements(games[1]), MaxChain) : DoFilterChain(ss)

NSolutions ==
  /\ last.op = "idle"
  /\ \E ss \in Lists(SelfStatements(games[1]), MaxChain) : DoNSolutions(ss)

GetSolution ==
  /\ last.op = "idle"
  /\ \E ss \in Lists(SelfStatements(games[1]), MaxChain) : DoGetSolution(ss)

Next == TrueFor \/ Filter \/ FilterChain \/ NSolutions \/ GetSolution \/ Adopt \/ Drop

Spec == Init /\ [][Next]_vars

CherylTrueFor ==
  /\ last.op = "idle"
  /\ \E s \in Range(CherylStatements), cand \in Tuples(games[1]) : DoTrueFor(s, cand)

CherylFilter ==
  /\ last.op = "idle"
  /\ \E s \in Range(CherylStatements) : DoFilter(s)

CherylFilterChain ==
  /\ last.op = "idle"
  /\ \E ss \in CherylLists : DoFilterChain(ss)

CherylNSolutions ==
  /\ last.op = "idle"
  /\ \E ss \in CherylLists : DoNSolutions(ss)

CherylGetSolution ==
  /\ last.op = "idle"
  /\ \E ss \in CherylLists : DoGetSolution(ss)

NextCheryl ==
  \/ CherylTrueFor \/ CherylFilter \/ CherylFilterChain \/ CherylNSolutions
  \/ CherylGetSolution \/ Adopt \/ Drop

SpecCheryl == InitCheryl /\ [][NextCheryl]_vars

-----------------------------------------------------------------------------
(* The functions and the constructors called on their own, and a Game of
   named players made, filtered and forgotten *)

\* a call of a function or a constructor: its arguments and what it gave
Applied(op, args, outcome, value) ==
  [op |-> op, args |-> args, outcome |-> outcome, value |-> value]

\* the names given to the players of a two-player Game
PlayerNames == {"Albert", "Bernard"}

\* the lists passed as candidates to Game and to get_compatible
CandidateLists(elems) ==
  {Iter(S, ord) :
     S \in {S \in SUBSET Range(elems) : Cardinality(S) \in 1..MaxCands},
     ord \in IterOrders}

\* the arguments player_names for candidates of arity n: None, and every
\* list of up to n + 1 names
NameArgs(n) == {None} \cup {Names(list) : list \in Lists(PlayerNames, n + 1)}

InitCalls ==
  /\ games = <<>>
  /\ sets = <<>>
  /\ last = Idle

KnowsCases ==
  /\ last.op = "idle"
  /\ games = <<>>
  /\ \E cases \in Lists(Knows, MaxCases) :
        last' = Applied("knows_cases", cases, "ok", knows_cases(cases))
  /\ UNCHANGED <<games, sets>>

GetCompatible ==
  /\ last.op = "idle"
  /\ games = <<>>
  /\ \E index \in 0..2, truth \in Range(GridElems),
        candidates \in CandidateLists(GridElems) :
        last' = Applied("get_compatible",
                        [self |-> Player(str(index), index), truth |-> truth,
                         candidates |-> candidates],
                        "ok",
                        get_compatible(Player(str(index), index), truth,
                                       candidates))
  /\ UNCHANGED <<games, sets>>

MakeStatement ==
  /\ last.op = "idle"
  /\ games = <<>>
  /\ \E author \in {"0", "1", "2"}, facts \in Facts(<<"0", "1", "2">>) :
        last' = Applied("Statement", [author |-> author, facts |-> facts],
                        StatementInit(author, facts).outcome,
                        StatementInit(author, facts).value)
  /\ UNCHANGED <<games, sets>>

\* Game(candidates, player_names): r is what Game.__init__ gave
GameMade(candidates, player_names, r) ==
  /\ games' = r.w.games
  /\ sets' = r.w.sets
  /\ last' = Applied("Game",
                     [candidates |-> candidates, player_names |-> player_names],
                     r.outcome, r.value)

MakeGame ==
  /\ last.op = "idle"
  /\ games = <<>>
  /\ \E candidates \in CandidateLists(SubSeq(CherylElems, 1, 5)) :
        \E player_names \in NameArgs(Len(candidates[1])) :
           GameMade(candidates, player_names,
                 GameInit(EmptyHeap, candidates, player_names))

\* game = Game(...): the caller holds the Game that was made
Hold ==
  /\ last.op = "Game"
  /\ last.outcome = "ok"
  /\ last' = Idle
  /\ UNCHANGED <<games, sets>>

NamedFilter ==
  /\ last.op = "idle"
  /\ games # <<>>
  /\ \E s \in Statements(games[1]) : DoFilter(s)

NamedFilterChain ==
  /\ last.op = "idle"
  /\ games # <<>>
  /\ \E ss \in Lists(SelfStatements(games[1]), MaxChain) : DoFilterChain(ss)

\* the caller lets go of what it has
Forget ==
  /\ last.op # "idle" \/ games # <<>>
  /\ games' = <<>>
  /\ sets' = <<>>
  /\ last' = Idle

NextCalls ==
  \/ KnowsCases \/ GetCompatible \/ MakeStatement \/ MakeGame \/ Hold
  \/ NamedFilter \/ NamedFilterChain \/ Adopt \/ Forget

SpecCalls == InitCalls /\ [][NextCalls]_vars

-----------------------------------------------------------------------------
(* sample_candidates, one step of the model for each pass of its loop: last
   holds the arguments and the locals of the call *)

\* tuples compared as Python compares them, from the first component on
TupleLess(a, b) ==
  \E i \in 1..Len(a) : a[i] < b[i] /\ \A j \in 1..(i - 1) : a[j] = b[j]

\* sorted(list(set(sample)))
sorted(S) ==
  CHOOSE seq \in [1..Cardinality(S) -> S] :
    \A i \in 1..(Cardinality(S) - 1) : TupleLess(seq[i], seq[i + 1])

\* what choose_k(k) may return for the choices: k of them, each picked by
\* random.choice
choose_k(k, choices) == [1..k -> Range(choices)]

\* what map(choose, domains) may give: for every domain a list of k picks
Mapped(k, domains) ==
  {candidates \in [1..Len(domains) -> UNION {choose_k(k, domains[d]) :
                                               d \in 1..Len(domains)}] :
     \A d \in 1..Len(domains) : candidates[d] \in choose_k(k, domains[d])}

\* list(zip(*candidates)): no tuple at all of no list
zip(k, candidates) ==
  IF candidates = <<>> THEN <<>>
  ELSE [j \in 1..k |-> [d \in 1..Len(candidates) |-> candidates[d][j]]]

\* the number of tuples sampled in a pass: the argument of choose_k, with
\* all of n_candidates for it
to_choose_all(n_candidates, n_unique) == n_candidates

to_choose(n_candidates, n_unique) == n_candidates - n_unique

\* the domains of the calls: lists of one or two values
Domains == {<<1>>, <<1, 2>>}

Entered(domains, n_candidates, max_tries) ==
  [op |-> "sample_candidates", pc |-> "while", domains |-> domains,
   n_candidates |-> n_candidates, max_tries |-> max_tries, sample |-> <<>>,
   n_unique |-> 0, n_tries |-> 0, outcome |-> "running", value |-> <<>>]

InitSample ==
  /\ games = <<>>
  /\ sets = <<>>
  /\ \E domains \in Lists(Domains, 2), n_candidates \in 0..MaxSample,
        max_tries \in 0..MaxTries :
        last = Entered(domains, n_candidates, max_tries)

\* the sample extended by the tuples of a pass
Extended(frame, sample) ==
  [frame EXCEPT !.n_tries = frame.n_tries + 1, !.sample = sample,
                !.n_unique = Cardinality(Range(sample))]

\* a pass of the loop that samples
SampleTry ==
  /\ last.op = "sample_candidates"
  /\ last.pc = "while"
  /\ last.n_unique # last.n_candidates
  /\ last.n_tries + 1 <= last.max_tries
  /\ \E candidates \in Mapped(to_choose(last.n_candidates, last.n_unique),
                               last.domains) :
        last' = Extended(last,
                         last.sample
                           \o zip(to_choose(last.n_candidates, last.n_unique),
                                  candidates))
  /\ UNCHANGED <<games, sets>>

\* the pass of the loop that finds max_tries exceeded
SampleRaise ==
  /\ last.op = "sample_candidates"
  /\ last.pc = "while"
  /\ last.n_unique # last.n_candidates
  /\ last.n_tries + 1 > last.max_tries
  /\ last' = [last EXCEPT !.n_tries = last.n_tries + 1, !.pc = "done",
                          !.outcome = "TooManyTriesError"]
  /\ UNCHANGED <<games, sets>>

\* the loop is left and the sample returned
SampleReturn ==
  /\ last.op = "sample_candidates"
  /\ last.pc = "while"
  /\ last.n_unique = last.n_candidates
  /\ last' = [last EXCEPT !.pc = "done", !.outcome = "ok",
                          !.value = sorted(Range(last.sample))]
  /\ UNCHANGED <<games, sets>>

NextSample == SampleTry \/ SampleRaise \/ SampleReturn

\* the call runs on until it returns or raises
SpecSample == InitSample /\ [][NextSample]_vars /\ WF_vars(NextSample)

-----------------------------------------------------------------------------
(* What the claims speak of *)

\* the candidate set of the Game at address g
Cands(g) == sets[games[g].candidates]

\* the heap as it is
Heap == [games |-> games, sets |-> sets]

\* the candidates of the held Game for which the statement is true
Retained(s, ord) ==
  {cand \in Cands(1) : true_for(s, cand, games[1], Held, ord)}

\* the candidate set a second filter by s leaves of the Game at address g,
\* {} when it raises
Again(g, s, ord) ==
  LET r == filter(Heap, g, s, ord)
  IN  IF r.outcome = "ok" THEN r.w.sets[r.w.games[r.value].candidates] ELSE {}

\* the statement speaks of no player but its author
OwnOnly(s) == DOMAIN s.facts \subseteq {Single(s.author)}

-----------------------------------------------------------------------------
(* C1 *)

CherylAfter1 == {<<7, 14>>, <<7, 16>>, <<8, 14>>, <<8, 15>>, <<8, 17>>}

CherylAfter2 == {<<7, 16>>, <<8, 15>>, <<8, 17>>}

CherylAfter3 == {<<7, 16>>}

\* C1: in the original game the three statements leave, one after the other,
\* the candidate sets CherylAfter1, CherylAfter2 and CherylAfter3, whether
\* they are applied by filter to the Game the step before returned or by
\* filter_chain to the original Game, and get_solution of the three
\* statements returns (7, 16).
C1_OriginalGame ==
  /\ \A k \in 1..3 :
       (/\ last.op = "filter"
        /\ last.stmts = <<CherylStatements[k]>>
        /\ Cands(1) = (CASE k = 1 -> Range(CherylElems)
                         [] k = 2 -> CherylAfter1
                         [] k = 3 -> CherylAfter2))
       => (/\ last.outcome = "ok"
           /\ Cands(last.value) = (CASE k = 1 -> CherylAfter1
                                     [] k = 2 -> CherylAfter2
                                     [] k = 3 -> CherylAfter3))
  /\ \A k \in 1..3 :
       (/\ last.op = "filter_chain"
        /\ last.stmts = SubSeq(CherylStatements, 1, k)
        /\ Cands(1) = Range(CherylElems))
       => (/\ last.outcome = "ok"
           /\ Cands(last.value) = (CASE k = 1 -> CherylAfter1
                                     [] k = 2 -> CherylAfter2
                                     [] k = 3 -> CherylAfter3))
  /\ (/\ last.op = "get_solution"
      /\ last.stmts = CherylStatements
      /\ Cands(1) = Range(CherylElems))
     => (last.outcome = "ok" /\ last.value = <<7, 16>>)

\* the third statement has been applied to the Game the first two left
C1_Witness ==
  /\ last.op = "filter"
  /\ last.stmts = <<CherylStatements[3]>>
  /\ Cands(1) = CherylAfter2
  /\ last.outcome = "ok"
  /\ Cands(last.value) = CherylAfter3

-----------------------------------------------------------------------------
(* C2 *)

\* C2 as stated: whenever filter by a statement succeeds, filter by the same
\* statement of the Game it returned succeeds and keeps every candidate.
C2_Idempotent ==
  (last.op = "filter" /\ last.outcome = "ok")
  => \A ord \in IterOrders :
        Again(last.value, last.stmts[1], ord) = Cands(last.value)

\* C2 amended: the same, for the statements that speak of no player but
\* their author.
C2_IdempotentOwnOnly ==
  (last.op = "filter" /\ last.outcome = "ok" /\ OwnOnly(last.stmts[1]))
  => \A ord \in IterOrders :
        Again(last.value, last.stmts[1], ord) = Cands(last.value)

\* a statement about its author alone has removed a candidate, and a second
\* filter by it removes no other
C2_Witness ==
  /\ last.op = "filter"
  /\ last.outcome = "ok"
  /\ OwnOnly(last.stmts[1])
  /\ DOMAIN last.stmts[1].facts # {}
  /\ Cands(last.value) # Cands(1)
  /\ \A ord \in IterOrders :
        Again(last.value, last.stmts[1], ord) = Cands(last.value)

-----------------------------------------------------------------------------
(* C3 *)

\* C3: filter returns a Game of exactly the candidates of the Game it is
\* called on for which true_for holds with that Game, whole, as game, in
\* whatever order the candidates are visited; it raises when there is none.
C3_FilterRetainsExactly ==
  last.op = "filter"
  => \A ord \in IterOrders :
        IF Retained(last.stmts[1], ord) = {}
        THEN last.outcome = "NoSolutionError"
        ELSE last.outcome = "ok" /\ Cands(last.value) = Retained(last.stmts[1], ord)

\* filter has removed a candidate and kept another
C3_Witness ==
  /\ last.op = "filter"
  /\ last.outcome = "ok"
  /\ Cands(last.value) # Cands(1)
  /\ Cardinality(Cands(last.value)) >= 2
  /\ \A ord \in IterOrders : Cands(last.value) = Retained(last.stmts[1], ord)

-----------------------------------------------------------------------------
(* C4 *)

\* C4: no Game has an empty candidate set, and a filter or filter_chain one
\* step of which retains nothing raises NoSolutionError and returns no Game.
C4_NeverEmpty ==
  /\ \A g \in 1..Len(games) : Cands(g) # {}
  /\ (last.op = "filter" /\ \E ord \in IterOrders : Retained(last.stmts[1], ord) = {})
     => (last.outcome = "NoSolutionError" /\ Len(games) = 1)
  /\ (last.op \in {"filter", "filter_chain"} /\ last.outcome = "ok")
     => (last.value \in 1..Len(games) /\ Cands(last.value) # {})

\* a filter that retains nothing has raised
C4_Witness ==
  /\ last.op = "filter"
  /\ \A ord \in IterOrders : Retained(last.stmts[1], ord) = {}
  /\ last.outcome = "NoSolutionError"
  /\ Len(games) = 1
  /\ Cardinality(Cands(1)) >= 2

-----------------------------------------------------------------------------
(* C5 *)

\* C5: the candidate set of the Game a filter or a filter_chain returns is a
\* subset of the one of the Game it was called on, and so is, step by step,
\* the one of every Game a filter_chain creates of the one before.
C5_Monotone ==
  /\ (last.op \in {"filter", "filter_chain"} /\ last.outcome = "ok")
     => Cands(last.value) \subseteq Cands(1)
  /\ last.op \in {"filter", "filter_chain"}
     => \A g \in 2..Len(games) : Cands(g) \subseteq Cands(g - 1)

\* a chain of two statements has removed a candidate
C5_Witness ==
  /\ last.op = "filter_chain"
  /\ last.outcome = "ok"
  /\ Len(games) = 3
  /\ Cands(3) \subseteq Cands(2)
  /\ Cands(2) # Cands(1)
  /\ Cands(2) \subseteq Cands(1)

-----------------------------------------------------------------------------
(* C6 *)

-----------------------------------------------------------------------------
(* C7 *)

\* C7: filter_chain calls filter for the statements in list order, the first
\* on the Game it is called on and each next one on the Game the step before
\* returned; it returns the Game of the last step; at the first step that
\* retains nothing it raises NoSolutionError and calls filter no more; and a
\* chain that has failed fails with any further statement appended.
C7_ChainIsIteratedFilter ==
  last.op = "filter_chain"
  => \A ord \in IterOrders :
        /\ last.calls = [j \in 1..Len(last.calls) |-> j]
        /\ Len(last.calls) <= Len(last.stmts)
        /\ \A j \in 1..Len(last.calls) :
              IF Again(j, last.stmts[j], ord) = {}
              THEN /\ j = Len(last.calls)
                   /\ last.outcome = "NoSolutionError"
                   /\ Len(games) = j
              ELSE /\ Len(games) >= j + 1
                   /\ Cands(j + 1) = Again(j, last.stmts[j], ord)
        /\ last.outcome = "ok"
           => /\ Len(last.calls) = Len(last.stmts)
              /\ last.value = Len(last.stmts) + 1
              /\ Len(games) = Len(last.stmts) + 1
        /\ last.outcome # "ok"
           => /\ last.outcome = "NoSolutionError"
              /\ \A s \in SelfStatements(games[1]) :
                    filter_chain(Held, 1, Append(last.stmts, s), ord).outcome
                      = "NoSolutionError"

\* a chain of two statements has failed at the first, a Game of several
\* candidates being left
C7_Witness ==
  /\ last.op = "filter_chain"
  /\ Len(last.stmts) = 2
  /\ last.outcome = "NoSolutionError"
  /\ Len(last.calls) = 1
  /\ Cardinality(Cands(1)) >= 2

-----------------------------------------------------------------------------
(* C8 *)

\* the candidate set filter_chain ends with, {} when it raises
ChainEnd(ss, ord) ==
  LET r == filter_chain(Held, 1, ss, ord)
  IN  IF r.outcome = "ok" THEN r.w.sets[r.w.games[r.value].candidates] ELSE {}

\* C8: n_solutions never raises; it returns the number of candidates of the
\* Game filter_chain returns for the same statements, and 0 exactly when
\* filter_chain raises NoSolutionError.
C8_NSolutions ==
  last.op = "n_solutions"
  => \A ord \in IterOrders :
        /\ last.outcome = "ok"
        /\ last.value = Cardinality(ChainEnd(last.stmts, ord))
        /\ last.value = 0
           <=> filter_chain(Held, 1, last.stmts, ord).outcome = "NoSolutionError"

\* n_solutions has returned 0 for a chain that failed at its second step
C8_Witness ==
  /\ last.op = "n_solutions"
  /\ last.outcome = "ok"
  /\ last.value = 0
  /\ Len(last.calls) = 2

-----------------------------------------------------------------------------
(* C9 *)

\* C9: get_solution raises NoSolutionError exactly when the chain raises it,
\* MultipleSolutionsError exactly when the chain ends with more than one
\* candidate, and else returns the one candidate the chain ends with, which
\* is a candidate of the Game it is called on.
C9_GetSolution ==
  last.op = "get_solution"
  => \A ord \in IterOrders :
        LET end == ChainEnd(last.stmts, ord)
        IN  /\ last.outcome \in {"ok", "NoSolutionError", "MultipleSolutionsError"}
            /\ last.outcome = "NoSolutionError" <=> end = {}
            /\ last.outcome = "MultipleSolutionsError" <=> Cardinality(end) > 1
            /\ last.outcome = "ok"
               => (end = {last.value} /\ last.value \in Cands(1))

\* get_solution has returned the one candidate left of several
C9_Witness ==
  /\ last.op = "get_solution"
  /\ last.outcome = "ok"
  /\ Len(last.stmts) = 2
  /\ Cardinality(Cands(1)) >= 3
  /\ last.value \in Cands(1)

-----------------------------------------------------------------------------
(* C10 *)

\* the algorithm as specified: the author's key is left out of the checks of
\* the other players' knowledge
TrueForAsSpecified(s, cand, game, w, ord) ==
  LET candidates == Iter(w.sets[game.candidates], ord)
      author == get_player(game, s.author)
      authorView == get_compatible(author, cand, candidates)
  IN  /\ Single(s.author) \in DOMAIN s.facts
         => knows(authorView) = s.facts[Single(s.author)]
      /\ \A who \in DOMAIN s.facts \ {Single(s.author)} :
            IF who.tuple
            THEN \E i \in 1..Len(who.names) :
                    would_know(get_player(game, who.names[i]), authorView,
                               candidates) = s.facts[who]
            ELSE would_know(get_player(game, who.names[1]), authorView,
                            candidates) = s.facts[who]

\* C10: for every Game, statement and tuple of the Game's arity true_for
\* returns what the algorithm as specified returns.
C10_TrueForAsSpecified ==
  last.op = "true_for"
  => \A ord \in IterOrders :
        last.value = TrueForAsSpecified(last.stmts[1], last.cand, games[1],
                                        Held, ord)

-----------------------------------------------------------------------------
(* C11 *)

\* the players of the tuple key who of s whose would_know, over the author's
\* view of cand and the candidates of the held Game, is what s expects
Matching(s, who, cand, ord) ==
  {i \in 1..Len(who.names) :
     would_know(get_player(games[1], who.names[i]),
                get_compatible(get_player(games[1], s.author), cand,
                               Iter(Cands(1), ord)),
                Iter(Cands(1), ord)) = s.facts[who]}

\* C11: true_for is false when no player of some tuple key of the statement
\* matches, and for a statement whose only key is a tuple it is true exactly
\* when at least one player of the tuple matches.
C11_GroupAtLeastOne ==
  last.op = "true_for"
  => \A ord \in IterOrders : \A who \in DOMAIN last.stmts[1].facts :
        who.tuple
        => /\ Matching(last.stmts[1], who, last.cand, ord) = {}
              => last.value = FALSE
           /\ DOMAIN last.stmts[1].facts = {who}
              => (last.value
                    <=> Matching(last.stmts[1], who, last.cand, ord) # {})

\* true_for has returned True for a current candidate, one player of the
\* tuple matching and the other not
C11_Witness ==
  /\ last.op = "true_for"
  /\ last.value = TRUE
  /\ last.cand \in Cands(1)
  /\ \E who \in DOMAIN last.stmts[1].facts :
        /\ who.tuple
        /\ Len(who.names) = 2
        /\ \A ord \in IterOrders :
              Cardinality(Matching(last.stmts[1], who, last.cand, ord)) = 1

-----------------------------------------------------------------------------
(* C12 *)

AllAre(cases, k) == \A i \in 1..Len(cases) : cases[i] = k

\* the cases in the order p, a permutation of their positions
Reordered(cases, p) == [i \in 1..Len(cases) |-> cases[p[i]]]

\* C12 as stated: for every list of cases, the empty one too, knows_cases
\* returns yes exactly when all cases are yes, no exactly when all are no,
\* and maybe otherwise, in whatever order the cases come.
C12_KnowsCases ==
  last.op = "knows_cases"
  => /\ last.value = Knows_yes <=> AllAre(last.args, Knows_yes)
     /\ last.value = Knows_no <=> AllAre(last.args, Knows_no)
     /\ last.value = Knows_maybe
          <=> ~AllAre(last.args, Knows_yes) /\ ~AllAre(last.args, Knows_no)
     /\ \A p \in Permutations(1..Len(last.args)) :
           knows_cases(Reordered(last.args, p)) = last.value

\* C12 amended: the same for every list of at least one case; for the empty
\* list knows_cases returns yes.
C12_KnowsCasesNonEmpty ==
  last.op = "knows_cases"
  => /\ last.args = <<>> => last.value = Knows_yes
     /\ last.args # <<>>
        => /\ last.value = Knows_yes <=> AllAre(last.args, Knows_yes)
           /\ last.value = Knows_no <=> AllAre(last.args, Knows_no)
           /\ last.value = Knows_maybe
                <=> ~AllAre(last.args, Knows_yes) /\ ~AllAre(last.args, Knows_no)
     /\ \A p \in Permutations(1..Len(last.args)) :
           knows_cases(Reordered(last.args, p)) = last.value

\* knows_cases has returned maybe for cases that begin with no and hold a yes
C12_Witness ==
  /\ last.op = "knows_cases"
  /\ Len(last.args) >= 3
  /\ last.args[1] = Knows_no
  /\ \E i \in 1..Len(last.args) : last.args[i] = Knows_yes
  /\ last.value = Knows_maybe

-----------------------------------------------------------------------------
(* C13 *)

\* C13: get_compatible returns the candidates, all of them and no other
\* tuple, whose value at the player's index is the truth's value there; a
\* truth that is one of the candidates is among them.
C13_GetCompatible ==
  last.op = "get_compatible"
  => /\ Range(last.value)
          = {e \in Range(last.args.candidates) :
               e[last.args.self.index + 1]
                 = last.args.truth[last.args.self.index + 1]}
     /\ last.args.truth \in Range(last.args.candidates)
        => last.args.truth \in Range(last.value)

\* get_compatible has returned the truth and another candidate, and left a
\* third candidate out
C13_Witness ==
  /\ last.op = "get_compatible"
  /\ Len(last.args.candidates) = 3
  /\ Len(last.value) = 2
  /\ last.args.truth \in Range(last.value)
  /\ last.args.self.index = 1

-----------------------------------------------------------------------------
(* C14 *)

\* C14: every Game, made by the constructor or by filter or filter_chain,
\* has players of pairwise distinct names, the player at place i of the
\* roster having index i, one for each dimension of the candidates; and the
\* roster of a Game that filter or filter_chain made or returned is the
\* roster of the Game it was called on.
C14_Roster ==
  /\ \A g \in 1..Len(games) :
        /\ \A i, j \in 1..Len(games[g].players) :
              games[g].players[i].name = games[g].players[j].name => i = j
        /\ \A i \in 1..Len(games[g].players) : games[g].players[i].index = i - 1
        /\ \A e \in Cands(g) : Len(e) = Len(games[g].players)
        /\ games[g].players = games[1].players
  /\ (last.op \in {"filter", "filter_chain"} /\ last.outcome = "ok")
     => games[last.value].players = games[1].players

\* filter has removed a candidate of a Game whose players were named, not in
\* the alphabetical order, by the caller
C14_Witness ==
  /\ last.op = "filter"
  /\ last.outcome = "ok"
  /\ get_player_names(games[1]) = <<"Bernard", "Albert">>
  /\ get_player_names(games[last.value]) = <<"Bernard", "Albert">>
  /\ Cands(last.value) # Cands(1)

-----------------------------------------------------------------------------
(* C15 *)

\* the list of names has the same name at two places
HasDuplicate(names) ==
  \E i, j \in 1..Len(names) : i # j /\ names[i] = names[j]

\* C15: Game(candidates, player_names) raises BadPlayerNamesError and makes
\* no Game when the names given hold a duplicate or are not as many as the
\* candidates have dimensions; it makes a Game of the players so named when
\* they are distinct and as many; and with no names given it makes a Game of
\* the players "0", "1", ... in the order of the dimensions.
C15_BadPlayerNames ==
  last.op = "Game"
  => /\ (/\ ~last.args.player_names.none
         /\ \/ HasDuplicate(last.args.player_names.names)
            \/ Len(last.args.player_names.names) # Len(last.args.candidates[1]))
        => (last.outcome = "BadPlayerNamesError" /\ games = <<>> /\ sets = <<>>)
     /\ (/\ ~last.args.player_names.none
         /\ ~HasDuplicate(last.args.player_names.names)
         /\ Len(last.args.player_names.names) = Len(last.args.candidates[1]))
        => /\ last.outcome = "ok"
           /\ Len(games) = 1
           /\ get_player_names(games[1]) = last.args.player_names.names
     /\ last.args.player_names.none
        => /\ last.outcome = "ok"
           /\ Len(games) = 1
           /\ get_player_names(games[1])
                = SubSeq(<<"0", "1", "2">>, 1, Len(last.args.candidates[1]))
           /\ Cands(1) = Range(last.args.candidates)

\* the constructor has raised for as many names as there are dimensions, two
\* of them the same
C15_Witness ==
  /\ last.op = "Game"
  /\ ~last.args.player_names.none
  /\ Len(last.args.player_names.names) = Len(last.args.candidates[1])
  /\ HasDuplicate(last.args.player_names.names)
  /\ last.outcome = "BadPlayerNamesError"
  /\ games = <<>>

-----------------------------------------------------------------------------
(* C16 *)

\* some tuple key of the facts names the author
AuthorInTuple(author, facts) ==
  \E who \in DOMAIN facts : who.tuple /\ author \in Range(who.names)

-----------------------------------------------------------------------------
(* C17 *)

\* the candidates of the held Game whose value at index is the value of no
\* other candidate of it
Alone(index) ==
  {c \in Cands(1) : \A d \in Cands(1) : d[index + 1] = c[index + 1] => d = c}

\* C17: for a statement whose only key is its author's name, filter returns
\* the Game of the candidates whose value at the author's index no other
\* candidate has when yes is expected, and of the candidates whose value
\* another candidate has as well when no is expected, and raises
\* NoSolutionError when there is no such candidate.
C17_OwnKnowledge ==
  (/\ last.op = "filter"
   /\ DOMAIN last.stmts[1].facts = {Single(last.stmts[1].author)}
   /\ last.stmts[1].facts[Single(last.stmts[1].author)] # Knows_maybe)
  => LET index == get_player(games[1], last.stmts[1].author).index
         kept == IF last.stmts[1].facts[Single(last.stmts[1].author)] = Knows_yes
                 THEN Alone(index)
                 ELSE Cands(1) \ Alone(index)
     IN  IF kept = {}
         THEN last.outcome = "NoSolutionError"
         ELSE last.outcome = "ok" /\ Cands(last.value) = kept

\* "I know" has kept one candidate and removed two that share their value at
\* the author's index
C17_Witness ==
  /\ last.op = "filter"
  /\ DOMAIN last.stmts[1].facts = {Single(last.stmts[1].author)}
  /\ last.stmts[1].facts[Single(last.stmts[1].author)] = Knows_yes
  /\ last.outcome = "ok"
  /\ Cardinality(Cands(1)) = 3
  /\ Cardinality(Cands(last.value)) = 1
  /\ Cands(last.value) = Alone(get_player(games[1], last.stmts[1].author).index)

-----------------------------------------------------------------------------
(* C18 *)

\* C18: of the original game, filter_chain of the first statement and then
\* the second does not end as filter_chain of the second and then the first
\* does: the one returns a Game, the other raises NoSolutionError.
C18_OrderMatters ==
  (/\ last.op = "filter_chain"
   /\ last.stmts = <<CherylStatements[1], CherylStatements[2]>>
   /\ Cands(1) = Range(CherylElems))
  => \A ord \in IterOrders :
        /\ last.outcome = "ok"
        /\ Cands(last.value)
             # ChainEnd(<<CherylStatements[2], CherylStatements[1]>>, ord)
        /\ ChainEnd(<<CherylStatements[2], CherylStatements[1]>>, ord) = {}

\* the first two statements have been applied in their order to the original
\* game and have left three candidates, and in the other order they leave
\* none
C18_Witness ==
  /\ last.op = "filter_chain"
  /\ last.stmts = <<CherylStatements[1], CherylStatements[2]>>
  /\ Cands(1) = Range(CherylElems)
  /\ last.outcome = "ok"
  /\ Cands(last.value) = CherylAfter2
  /\ \A ord \in IterOrders :
        filter_chain(Held, 1, <<CherylStatements[2], CherylStatements[1]>>,
                     ord).outcome = "NoSolutionError"

-----------------------------------------------------------------------------
(* C19 *)

\* the tuples whose component d is a value of the domain d
TuplesOf(domains) ==
  {t \in [1..Len(domains) -> UNION {Range(domains[d]) : d \in 1..Len(domains)}] :
     \A d \in 1..Len(domains) : t[d] \in Range(domains[d])}

\* what holds of a call of sample_candidates at every pass of its loop and
\* when it has ended
SampleBounded ==
  /\ Cardinality(Range(last.sample)) <= last.n_candidates
  /\ last.n_unique <= last.n_candidates
  /\ last.n_tries <= last.max_tries + 1
  /\ last.n_tries = last.max_tries + 1
     => (last.pc = "done" /\ last.outcome = "TooManyTriesError")
  /\ last.pc = "done"
     => /\ last.outcome \in {"ok", "TooManyTriesError"}
        /\ last.n_candidates > Cardinality(TuplesOf(last.domains))
           => last.outcome = "TooManyTriesError"
  /\ last.outcome = "ok"
     => /\ Len(last.value) = last.n_candidates
        /\ \A i, j \in 1..Len(last.value) :
              last.value[i] = last.value[j] => i = j
        /\ Range(last.value) \subseteq TuplesOf(last.domains)

-----------------------------------------------------------------------------
(* C20 *)

\* the candidates the filter that was called has kept
Kept == IF last.outcome = "ok" THEN Cands(last.value) ELSE {}

\* the index of the author of s in the held Game
AuthorIndex(s) == get_player(games[1], s.author).index

\* C20: for two candidates of a Game with the same value at the author's
\* index true_for returns the same, and filter keeps both or neither.
C20_WholeClasses ==
  last.op = "filter"
  => \A c, d \in Cands(1) :
        c[AuthorIndex(last.stmts[1]) + 1] = d[AuthorIndex(last.stmts[1]) + 1]
        => /\ c \in Kept <=> d \in Kept
           /\ \A ord \in IterOrders :
                 true_for(last.stmts[1], c, games[1], Held, ord)
                   = true_for(last.stmts[1], d, games[1], Held, ord)

\* a statement about another player than its author has removed two
\* candidates with the same value at the author's index and kept a third
C20_Witness ==
  /\ last.op = "filter"
  /\ last.outcome = "ok"
  /\ ~OwnOnly(last.stmts[1])
  /\ Cardinality(Cands(last.value)) = 1
  /\ \E c, d \in Cands(1) \ Cands(last.value) :
        /\ c # d
        /\ c[AuthorIndex(last.stmts[1]) + 1] = d[AuthorIndex(last.stmts[1]) + 1]

====
